---- MODULE Spec2Model ----
(***************************************************************************)
(* Model of the elliptic-curve chip of halo2wrong (BaseFieldEccChip):      *)
(* the auxiliary-point state (aux_generator, aux_registry), the incomplete *)
(* point operations and the windowed scalar multiplications built on them. *)
(*                                                                         *)
(* The emulated curve is scaled down to y^2 = x^3 + 2 over F_13, a curve   *)
(* of prime order 19, so that every point, scalar and auxiliary generator  *)
(* can be enumerated.  In-circuit values are computed with the affine      *)
(* formulas over F_13; the off-circuit oracle is the group Z_19 read       *)
(* through the table of multiples of the generator.                        *)
(***************************************************************************)
EXTENDS Integers, Sequences, FiniteSets, TLC

VARIABLES aux_generator, aux_registry, assigned, last, pc, circuit, instance

vars == <<aux_generator, aux_registry, assigned, last, pc, circuit, instance>>

chip == <<aux_generator, aux_registry>>

(***************************************************************************)
(* Bounds of the model.                                                    *)
(***************************************************************************)
MaxWindow == 4
MaxPairs == 4
MaxBatchWindow == 2
MaxAssigned == 3

(***************************************************************************)
(* The curve: base field (C::Base), scalar field (C::Scalar), parameter b. *)
(***************************************************************************)
BaseModulus == 13
ScalarModulus == 19
CurveB == 2

RECURSIVE BitLen(_)
BitLen(n) == IF n = 0 THEN 0 ELSE 1 + BitLen(n \div 2)

NUM_BITS == BitLen(ScalarModulus)

RECURSIVE Pow2(_)
Pow2(n) == IF n = 0 THEN 1 ELSE 2 * Pow2(n - 1)

(***************************************************************************)
(* Values.  An off-circuit point (type C) is a finite point or the point   *)
(* at infinity; Option<C> adds None.  An in-circuit value is a coordinate  *)
(* pair, an unknown witness (None) or a value left undefined by an         *)
(* incomplete formula used inside its exceptional domain.                  *)
(***************************************************************************)
Pt(x, y) == [kind |-> "pt", x |-> x, y |-> y]
INF == [kind |-> "inf", x |-> 0, y |-> 0]
NoneC == [kind |-> "none", x |-> 0, y |-> 0]
UNDEF == [kind |-> "undef", x |-> 0, y |-> 0]

\* k * generator for k = 1..18; the point at infinity is 0 * generator
CurveTable ==
  << Pt(1, 4), Pt(2, 7), Pt(6, 7), Pt(10, 1), Pt(5, 6), Pt(4, 1),
     Pt(9, 4), Pt(3, 9), Pt(12, 1), Pt(12, 12), Pt(3, 4), Pt(9, 9),
     Pt(4, 12), Pt(5, 7), Pt(10, 12), Pt(6, 6), Pt(2, 6), Pt(1, 9) >>

FromLog(k) == IF k % ScalarModulus = 0 THEN INF ELSE CurveTable[k % ScalarModulus]

Log(P) == IF P.kind = "inf" THEN 0
          ELSE CHOOSE k \in 1..(ScalarModulus - 1) : CurveTable[k] = P

CurvePoints == {CurveTable[k] : k \in 1..(ScalarModulus - 1)}

Scalars == 0..(ScalarModulus - 1)

\* the off-circuit group law of the curve library (a + b, base * s, -a)
GroupAdd(P, Q) == FromLog(Log(P) + Log(Q))
GroupMul(P, s) == FromLog(Log(P) * s)
GroupNeg(P) == FromLog(ScalarModulus - Log(P))

(***************************************************************************)
(* Arithmetic of the base field, as the integer chip provides it.          *)
(***************************************************************************)
FAdd(a, b) == (a + b) % BaseModulus
FSub(a, b) == (a + BaseModulus - b) % BaseModulus
FMul(a, b) == (a * b) % BaseModulus
FInv(a) == CHOOSE i \in 1..(BaseModulus - 1) : (a * i) % BaseModulus = 1
FDiv(a, b) == FMul(a, FInv(b))

OnCurve(P) == FMul(P.y, P.y) = FAdd(FMul(P.x, FMul(P.x, P.x)), CurveB)

(***************************************************************************)
(* The region context threaded through every operation: the error that     *)
(* aborted synthesis (if any), whether the witness satisfies every         *)
(* constraint emitted so far, and the operations emitted in order.         *)
(***************************************************************************)
NewCtx == [err |-> "none", sat |-> TRUE, ops |-> << >>]

Emit(ctx, name) == IF ctx.err # "none" THEN ctx
                   ELSE [ctx EXCEPT !.ops = Append(@, name)]

Fail(ctx, e) == IF ctx.err # "none" THEN ctx ELSE [ctx EXCEPT !.err = e]

Unsat(ctx) == IF ctx.err # "none" THEN ctx ELSE [ctx EXCEPT !.sat = FALSE]

Res(ctx, pt) == [ctx |-> ctx, pt |-> IF ctx.err # "none" THEN UNDEF ELSE pt]

\* the value of an operation on operands that are not both known points
Strict(p0, p1) == IF p0.kind = "none" \/ p1.kind = "none" THEN NoneC ELSE UNDEF

Known(p0, p1) == p0.kind = "pt" /\ p1.kind = "pt"

Ok(r) == r.ctx.err = "none" /\ r.ctx.sat /\ r.pt.kind = "pt"

(***************************************************************************)
(* Integer-chip assertion x_0 != x_1 on the x-coordinates of two points.   *)
(***************************************************************************)
assert_not_equal(ctx, p0, p1) ==
  LET c == Emit(ctx, "assert_not_equal")
  IN IF Known(p0, p1) /\ p0.x = p1.x THEN Unsat(c) ELSE c

(***************************************************************************)
(* The incomplete affine formulas.  Each is defined only outside its       *)
(* exceptional domain; inside it the formula divides by zero and the       *)
(* value it leaves behind is undefined.                                    *)
(***************************************************************************)
chord(p0, p1) ==
  LET lambda == FDiv(FSub(p1.y, p0.y), FSub(p1.x, p0.x))
      x2 == FSub(FSub(FMul(lambda, lambda), p0.x), p1.x)
      y2 == FSub(FMul(lambda, FSub(p0.x, x2)), p0.y)
  IN Pt(x2, y2)

tangent(p) ==
  LET lambda == FDiv(FMul(3, FMul(p.x, p.x)), FMul(2, p.y))
      x2 == FSub(FSub(FMul(lambda, lambda), p.x), p.x)
      y2 == FSub(FMul(lambda, FSub(p.x, x2)), p.y)
  IN Pt(x2, y2)

add_incomplete_unsafe(ctx, p0, p1) ==
  LET c == Emit(ctx, "add_incomplete_unsafe")
  IN Res(c, IF ~Known(p0, p1) THEN Strict(p0, p1)
            ELSE IF p0.x = p1.x THEN UNDEF
            ELSE chord(p0, p1))

double_incomplete(ctx, p) ==
  LET c == Emit(ctx, "double_incomplete")
  IN Res(c, IF p.kind # "pt" THEN Strict(p, p)
            ELSE IF p.y = 0 THEN UNDEF
            ELSE tangent(p))

\* (P + Q) + P with P = to_double, Q = to_add, without computing y of P + Q
ladder_incomplete(ctx, to_double, to_add) ==
  LET c == Emit(ctx, "ladder_incomplete")
      x1 == to_double.x
      y1 == to_double.y
      lambda0 == FDiv(FSub(to_add.y, y1), FSub(to_add.x, x1))
      x3 == FSub(FSub(FMul(lambda0, lambda0), x1), to_add.x)
      lambda1 == FSub(0, FAdd(lambda0, FDiv(FMul(2, y1), FSub(x3, x1))))
      x4 == FSub(FSub(FMul(lambda1, lambda1), x1), x3)
      y4 == FSub(FMul(lambda1, FSub(x1, x4)), y1)
  IN Res(c, IF ~Known(to_double, to_add) THEN Strict(to_double, to_add)
            ELSE IF to_add.x = x1 THEN UNDEF
            ELSE IF x3 = x1 THEN UNDEF
            ELSE Pt(x4, y4))

(***************************************************************************)
(* Point operations of the chip.                                           *)
(***************************************************************************)
\* select with its two operands exchanged
select_swapped(ctx, c, p1, p2) ==
  Res(Emit(ctx, "select"), IF c = 1 THEN p2 ELSE p1)

\* select emitted once per coordinate
select_per_coordinate(ctx, c, p1, p2) ==
  Res(Emit(Emit(ctx, "select"), "select"), IF c = 1 THEN p1 ELSE p2)

select(ctx, c, p1, p2) ==
  Res(Emit(ctx, "select"), IF c = 1 THEN p1 ELSE p2)

\* the same addition with the x_0 != x_1 assertion left out
add_unasserted(ctx, p0, p1) == add_incomplete_unsafe(ctx, p0, p1)

add(ctx, p0, p1) ==
  add_incomplete_unsafe(assert_not_equal(ctx, p0, p1), p0, p1)

double(ctx, p) == double_incomplete(ctx, p)

\* double_n doubling once instead of logn times
double_n_once(ctx, p, logn) ==
  IF logn = 0 THEN Res(ctx, p) ELSE double_incomplete(ctx, p)

RECURSIVE double_n(_, _, _)
double_n(ctx, p, logn) ==
  IF logn = 0 THEN Res(ctx, p)
  ELSE LET r == double_incomplete(ctx, p)
       IN IF r.ctx.err # "none" THEN r
          ELSE double_n(r.ctx, r.pt, logn - 1)

\* the ladder with its two operands exchanged
ladder_swapped(ctx, to_double, to_add) == ladder_incomplete(ctx, to_add, to_double)

ladder(ctx, to_double, to_add) == ladder_incomplete(ctx, to_double, to_add)

neg(ctx, p) ==
  Res(Emit(ctx, "neg"), IF p.kind = "pt" THEN Pt(p.x, FSub(0, p.y)) ELSE p)

normalize(ctx, point) == Res(Emit(Emit(ctx, "reduce"), "reduce"), point)

(***************************************************************************)
(* Public inputs.  A coordinate is held in NUMBER_OF_LIMBS limbs of        *)
(* BIT_LEN_LIMB bits, least significant limb first.  The instance column   *)
(* is the set of (row, cell) pairs that constrain_instance has bound.      *)
(***************************************************************************)
BIT_LEN_LIMB == 1
NUMBER_OF_LIMBS == 4

Limbs(v) ==
  [i \in 1..NUMBER_OF_LIMBS |->
     (v \div Pow2((i - 1) * BIT_LEN_LIMB)) % Pow2(BIT_LEN_LIMB)]

\* the cell of limb number `limb` (from 0) of coordinate `coord` of a point
Cell(point, coord, limb) ==
  [point |-> point, coord |-> coord, limb |-> limb,
   value |-> IF point.kind # "pt" THEN -1
             ELSE Limbs(IF coord = "x" THEN point.x ELSE point.y)[limb + 1]]

constrain_instance(bound, cell, row) == bound \cup {[row |-> row, cell |-> cell]}

\* for limb in point.<coord>.limbs().iter(), from limb number i on
RECURSIVE ExposeLimbs(_, _, _, _, _)
ExposeLimbs(bound, point, coord, i, offset) ==
  IF i = NUMBER_OF_LIMBS THEN [bound |-> bound, offset |-> offset]
  ELSE ExposeLimbs(constrain_instance(bound, Cell(point, coord, i), offset),
                   point, coord, i + 1, offset + 1)

\* expose_public binding the limbs of y before the limbs of x
expose_public_y_first(bound, point, offset) ==
  LET y == ExposeLimbs(bound, point, "y", 0, offset)
  IN ExposeLimbs(y.bound, point, "x", 0, y.offset).bound

expose_public(bound, point, offset) ==
  LET x == ExposeLimbs(bound, point, "x", 0, offset)
  IN ExposeLimbs(x.bound, point, "y", 0, x.offset).bound

(***************************************************************************)
(* Assigned points and the chip's auxiliary state.  An assigned point is   *)
(* its witness value together with the serial number of the assignment     *)
(* that created its cells (0 for a point that is not stored in the chip).  *)
(***************************************************************************)
AssignedPoint(val, id) == [val |-> val, id |-> id]
NoAssigned == AssignedPoint(UNDEF, 0)

NoGenerator == [some |-> FALSE, assigned |-> NoAssigned, point |-> NoneC]
EmptyRegistry == [k \in {} |-> NoAssigned]

\* BaseFieldEccChip::new
new_chip ==
  /\ aux_generator = NoGenerator
  /\ aux_registry = EmptyRegistry
  /\ assigned = 0

MulAuxNew(to_add, to_sub) == [err |-> "none", to_add |-> to_add, to_sub |-> to_sub]
MulAuxErr == [err |-> "synthesis", to_add |-> NoAssigned, to_sub |-> NoAssigned]

\* get_mul_aux looking the registry up under the exchanged key
get_mul_aux_swapped(window_size, number_of_pairs) ==
  IF ~aux_generator.some THEN MulAuxErr
  ELSE IF <<number_of_pairs, window_size>> \notin DOMAIN aux_registry THEN MulAuxErr
  ELSE MulAuxNew(aux_generator.assigned, aux_registry[<<number_of_pairs, window_size>>])

get_mul_aux(window_size, number_of_pairs) ==
  IF ~aux_generator.some THEN MulAuxErr
  ELSE IF <<window_size, number_of_pairs>> \notin DOMAIN aux_registry THEN MulAuxErr
  ELSE MulAuxNew(aux_generator.assigned, aux_registry[<<window_size, number_of_pairs>>])

assert_is_on_curve(ctx, point) ==
  LET c == Emit(ctx, "assert_is_on_curve")
  IN IF point.kind = "pt" /\ ~OnCurve(point) THEN Unsat(c) ELSE c

\* point is an Option<C>: NoneC, a finite point or the point at infinity;
\* to_rns_point unwraps the coordinates, which the point at infinity lacks
assign_point(ctx, point) ==
  IF point.kind = "inf" THEN Res(Fail(ctx, "panic"), UNDEF)
  ELSE LET c == Emit(Emit(ctx, "range_assign_integer"), "range_assign_integer")
       IN Res(assert_is_on_curve(c, point), point)

\* number of windows of a padded scalar
NumberOfSelectors(window_size) ==
  (NUM_BITS \div window_size) + (IF NUM_BITS % window_size # 0 THEN 1 ELSE 0)

RECURSIVE WindowMask(_, _)
WindowMask(window_size, count) ==
  IF count = 0 THEN 0
  ELSE Pow2((count - 1) * window_size) + WindowMask(window_size, count - 1)

\* the point that cancels what the schedule of (window_size, number_of_pairs)
\* accumulates on aux_to_add
make_mul_aux(aux_to_add, window_size, number_of_pairs) ==
  LET k0 == WindowMask(window_size, NumberOfSelectors(window_size))
      k1 == Pow2(number_of_pairs) - 1
  IN GroupMul(GroupNeg(aux_to_add), k0 * k1)

(***************************************************************************)
(* Windowed scalar multiplication.                                         *)
(***************************************************************************)
Reverse(s) == [i \in 1..Len(s) |-> s[Len(s) + 1 - i]]

\* the scalar chip's decomposition: NUM_BITS bits, least significant first
decompose(ctx, scalar) ==
  [ctx |-> Emit(ctx, "decompose"),
   bits |-> [i \in 1..NUM_BITS |-> (scalar \div Pow2(i - 1)) % 2]]

RECURSIVE EmitN(_, _, _)
EmitN(ctx, name, count) ==
  IF count = 0 THEN ctx ELSE EmitN(Emit(ctx, name), name, count - 1)

\* pad without the final bits.reverse()
pad_unreversed(ctx, bits, window_size) ==
  IF Len(bits) # NUM_BITS THEN [ctx |-> Fail(ctx, "panic"), bits |-> bits]
  ELSE LET padding_offset == (window_size - (Len(bits) % window_size)) % window_size
           zeros == [i \in 1..padding_offset |-> 0]
       IN [ctx |-> EmitN(ctx, "assign_constant", padding_offset),
           bits |-> bits \o zeros]

pad(ctx, bits, window_size) ==
  IF Len(bits) # NUM_BITS THEN [ctx |-> Fail(ctx, "panic"), bits |-> bits]
  ELSE LET padding_offset == (window_size - (Len(bits) % window_size)) % window_size
           zeros == [i \in 1..padding_offset |-> 0]
       IN [ctx |-> EmitN(ctx, "assign_constant", padding_offset),
           bits |-> Reverse(bits \o zeros)]

\* window without selector.reverse()
window_unreversed(bits, window_size) ==
  LET number_of_windows == Len(bits) \div window_size
  IN [i \in 1..number_of_windows |->
        [j \in 1..window_size |-> bits[(i - 1) * window_size + j]]]

\* window i holds bits[i * w .. i * w + w - 1], reversed
window(bits, window_size) ==
  LET number_of_windows == Len(bits) \div window_size
  IN [i \in 1..number_of_windows |->
        Reverse([j \in 1..window_size |-> bits[(i - 1) * window_size + j]])]

Failed(r) == r.ctx.err # "none"

Abort(r) == Res(r.ctx, UNDEF)

RECURSIVE TablePush(_, _, _, _, _)
TablePush(ctx, table, point, i, table_size) ==
  IF i = table_size - 1 THEN [ctx |-> ctx, table |-> table]
  ELSE LET r == add(ctx, table[i + 1], point)
       IN IF Failed(r) THEN [ctx |-> r.ctx, table |-> table]
          ELSE TablePush(r.ctx, Append(table, r.pt), point, i + 1, table_size)

\* the table one entry short
make_incremental_table_short(ctx, aux, point, window_size) ==
  TablePush(ctx, <<aux>>, point, 0, Pow2(window_size) - 1)

make_incremental_table(ctx, aux, point, window_size) ==
  TablePush(ctx, <<aux>>, point, 0, Pow2(window_size))

\* select_multi's rounds on a selector with its order exchanged
RECURSIVE SelectRoundReversed(_, _, _, _, _, _)
SelectRoundReversed(ctx, reducer, selector, i, j, stop) ==
  IF i = stop THEN [ctx |-> ctx, table |-> reducer]
  ELSE IF j = Pow2(Len(selector) - 1 - i)
       THEN SelectRoundReversed(ctx, reducer, selector, i + 1, 0, stop)
       ELSE LET k == 2 * j
                r == select(ctx, selector[Len(selector) - i], reducer[k + 2],
                            reducer[k + 1])
            IN IF Failed(r) THEN [ctx |-> r.ctx, table |-> reducer]
               ELSE SelectRoundReversed(r.ctx, [reducer EXCEPT ![j + 1] = r.pt],
                                        selector, i, j + 1, stop)

\* rounds i .. stop - 1 of select_multi, round i from entry j on
RECURSIVE SelectRound(_, _, _, _, _, _)
SelectRound(ctx, reducer, selector, i, j, stop) ==
  IF i = stop THEN [ctx |-> ctx, table |-> reducer]
  ELSE IF j = Pow2(Len(selector) - 1 - i)
       THEN SelectRound(ctx, reducer, selector, i + 1, 0, stop)
       ELSE LET k == 2 * j
                r == select(ctx, selector[i + 1], reducer[k + 2], reducer[k + 1])
            IN IF Failed(r) THEN [ctx |-> r.ctx, table |-> reducer]
               ELSE SelectRound(r.ctx, [reducer EXCEPT ![j + 1] = r.pt],
                                selector, i, j + 1, stop)

\* select_multi returning table[0] without a select when every bit is 0
select_multi_shortcut(ctx, selector, table) ==
  IF Len(table) # Pow2(Len(selector)) THEN Res(Fail(ctx, "panic"), UNDEF)
  ELSE IF \A i \in 1..Len(selector) : selector[i] = 0 THEN Res(ctx, table[1])
  ELSE LET r == SelectRound(ctx, table, selector, 0, 0, Len(selector))
       IN Res(r.ctx, r.table[1])

select_multi(ctx, selector, table) ==
  IF Len(table) # Pow2(Len(selector)) THEN Res(Fail(ctx, "panic"), UNDEF)
  ELSE LET r == SelectRound(ctx, table, selector, 0, 0, Len(selector))
       IN Res(r.ctx, r.table[1])

\* the loop doubling window_size times before each ladder
RECURSIVE MulLoopFullDouble(_, _, _, _, _, _)
MulLoopFullDouble(ctx, acc, windowed, i, table, window_size) ==
  IF i > Len(windowed) THEN Res(ctx, acc)
  ELSE LET d == double_n(ctx, acc, window_size)
       IN IF Failed(d) THEN d
          ELSE LET to_add == select_multi(d.ctx, windowed[i], table)
               IN IF Failed(to_add) THEN to_add
                  ELSE LET l == ladder(to_add.ctx, d.pt, to_add.pt)
                       IN IF Failed(l) THEN l
                          ELSE MulLoopFullDouble(l.ctx, l.pt, windowed, i + 1,
                                                 table, window_size)

\* for selector in windowed.iter().skip(2)
RECURSIVE MulLoop(_, _, _, _, _, _)
MulLoop(ctx, acc, windowed, i, table, window_size) ==
  IF i > Len(windowed) THEN Res(ctx, acc)
  ELSE LET d == double_n(ctx, acc, window_size - 1)
       IN IF Failed(d) THEN d
          ELSE LET to_add == select_multi(d.ctx, windowed[i], table)
               IN IF Failed(to_add) THEN to_add
                  ELSE LET l == ladder(to_add.ctx, d.pt, to_add.pt)
                       IN IF Failed(l) THEN l
                          ELSE MulLoop(l.ctx, l.pt, windowed, i + 1, table,
                                       window_size)

\* the accumulator of mul after the last window, before the final correction
MulSchedule(ctx, windowed, table, window_size) ==
  LET s0 == select_multi(ctx, windowed[1], table)
  IN IF Failed(s0) THEN s0
     ELSE LET a0 == double_n(s0.ctx, s0.pt, window_size)
          IN IF Failed(a0) THEN a0
             ELSE IF Len(windowed) < 2 THEN Res(Fail(a0.ctx, "panic"), UNDEF)
             ELSE LET s1 == select_multi(a0.ctx, windowed[2], table)
                  IN IF Failed(s1) THEN s1
                     ELSE LET a1 == add(s1.ctx, a0.pt, s1.pt)
                          IN IF Failed(a1) THEN a1
                             ELSE MulLoop(a1.ctx, a1.pt, windowed, 3, table,
                                          window_size)

\* mul after the table is built: the accumulation and the final correction
MulAccumulate(ctx, windowed, table, aux, window_size) ==
  LET a2 == MulSchedule(ctx, windowed, table, window_size)
  IN IF Failed(a2) THEN a2 ELSE add(a2.ctx, a2.pt, aux.to_sub.val)

\* mul once get_mul_aux has returned aux
MulWithAux(ctx, aux, point, scalar, window_size) ==
  LET decomposed == decompose(ctx, scalar)
      padded == pad(decomposed.ctx, decomposed.bits, window_size)
      windowed == window(padded.bits, window_size)
  IN IF Failed(padded) THEN Abort(padded)
     ELSE LET t == make_incremental_table(padded.ctx, aux.to_add.val, point,
                                          window_size)
          IN IF Failed(t) THEN Abort(t)
             ELSE MulAccumulate(t.ctx, windowed, t.table, aux, window_size)

\* mul decomposing the scalar before it looks the aux up
mul_lookup_late(ctx, point, scalar, window_size) ==
  IF window_size = 0 THEN Res(Fail(ctx, "panic"), UNDEF)
  ELSE LET aux == get_mul_aux(window_size, 1)
       IN IF aux.err # "none"
          THEN Res(Fail(decompose(ctx, scalar).ctx, aux.err), UNDEF)
          ELSE MulWithAux(ctx, aux, point, scalar, window_size)

mul(ctx, point, scalar, window_size) ==
  IF window_size = 0 THEN Res(Fail(ctx, "panic"), UNDEF)
  ELSE LET aux == get_mul_aux(window_size, 1)
       IN IF aux.err # "none" THEN Res(Fail(ctx, aux.err), UNDEF)
          ELSE MulWithAux(ctx, aux, point, scalar, window_size)

(***************************************************************************)
(* Batch multiplication.  pairs is a sequence of [point, scalar].          *)
(***************************************************************************)
RECURSIVE DecomposeAll(_, _, _, _)
DecomposeAll(ctx, pairs, i, acc) ==
  IF i > Len(pairs) THEN [ctx |-> ctx, all |-> acc]
  ELSE LET d == decompose(ctx, pairs[i].scalar)
       IN IF Failed(d) THEN [ctx |-> d.ctx, all |-> acc]
          ELSE DecomposeAll(d.ctx, pairs, i + 1, Append(acc, d.bits))

RECURSIVE PadAll(_, _, _, _, _)
PadAll(ctx, decomposed_scalars, window_size, i, acc) ==
  IF i > Len(decomposed_scalars) THEN [ctx |-> ctx, all |-> acc]
  ELSE LET d == pad(ctx, decomposed_scalars[i], window_size)
       IN IF Failed(d) THEN [ctx |-> d.ctx, all |-> acc]
          ELSE PadAll(d.ctx, decomposed_scalars, window_size, i + 1,
                      Append(acc, d.bits))

\* the tables with binary_aux never doubled: every pair starts at aux.to_add
RECURSIVE TablesSharedAux(_, _, _, _, _, _)
TablesSharedAux(ctx, pairs, binary_aux, window_size, i, acc) ==
  IF i > Len(pairs) THEN [ctx |-> ctx, all |-> acc]
  ELSE LET t == make_incremental_table(ctx, binary_aux, pairs[i].point, window_size)
       IN IF Failed(t) THEN [ctx |-> t.ctx, all |-> acc]
          ELSE TablesSharedAux(t.ctx, pairs, binary_aux, window_size, i + 1,
                               Append(acc, t.table))

\* the tables with binary_aux doubled after every pair, the last included
RECURSIVE TablesDoubleAll(_, _, _, _, _, _)
TablesDoubleAll(ctx, pairs, binary_aux, window_size, i, acc) ==
  IF i > Len(pairs) THEN [ctx |-> ctx, all |-> acc]
  ELSE LET t == make_incremental_table(ctx, binary_aux, pairs[i].point, window_size)
           d == double(t.ctx, binary_aux)
       IN IF Failed(d) THEN [ctx |-> d.ctx, all |-> acc]
          ELSE TablesDoubleAll(d.ctx, pairs, d.pt, window_size, i + 1,
                               Append(acc, t.table))

\* pair i's table starts at binary_aux, doubled after every pair but the last
RECURSIVE Tables(_, _, _, _, _, _)
Tables(ctx, pairs, binary_aux, window_size, i, acc) ==
  IF i > Len(pairs) THEN [ctx |-> ctx, all |-> acc]
  ELSE LET t == make_incremental_table(ctx, binary_aux, pairs[i].point, window_size)
           d == IF i # Len(pairs) THEN double(t.ctx, binary_aux)
                ELSE Res(t.ctx, binary_aux)
       IN IF Failed(d) THEN [ctx |-> d.ctx, all |-> acc]
          ELSE Tables(d.ctx, pairs, d.pt, window_size, i + 1, Append(acc, t.table))

\* add the selections of window w_i of the pairs from..n into acc
RECURSIVE AddSelections(_, _, _, _, _, _)
AddSelections(ctx, acc, tables, windowed_scalars, w_i, from) ==
  IF from > Len(tables) THEN Res(ctx, acc)
  ELSE LET to_add == select_multi(ctx, windowed_scalars[from][w_i], tables[from])
       IN IF Failed(to_add) THEN to_add
          ELSE LET a == add(to_add.ctx, acc, to_add.pt)
               IN IF Failed(a) THEN a
                  ELSE AddSelections(a.ctx, a.pt, tables, windowed_scalars, w_i,
                                     from + 1)

\* for i in 1..number_of_windows
RECURSIVE BatchLoop(_, _, _, _, _, _)
BatchLoop(ctx, acc, tables, windowed_scalars, w_i, window_size) ==
  IF w_i > Len(windowed_scalars[1]) THEN Res(ctx, acc)
  ELSE LET d == double_n(ctx, acc, window_size)
       IN IF Failed(d) THEN d
          ELSE LET a == AddSelections(d.ctx, d.pt, tables, windowed_scalars, w_i, 1)
               IN IF Failed(a) THEN a
                  ELSE BatchLoop(a.ctx, a.pt, tables, windowed_scalars, w_i + 1,
                                 window_size)

\* the accumulator of the batch after the last window, before the final
\* correction
BatchSchedule(ctx, windowed_scalars, tables, window_size) ==
  LET s0 == select_multi(ctx, windowed_scalars[1][1], tables[1])
  IN IF Failed(s0) THEN s0
     ELSE LET a0 == AddSelections(s0.ctx, s0.pt, tables, windowed_scalars, 1, 2)
          IN IF Failed(a0) THEN a0
             ELSE BatchLoop(a0.ctx, a0.pt, tables, windowed_scalars, 2,
                            window_size)

\* the batch after the tables are built
BatchAccumulate(ctx, windowed_scalars, tables, aux, window_size) ==
  LET a1 == BatchSchedule(ctx, windowed_scalars, tables, window_size)
  IN IF Failed(a1) THEN a1 ELSE add(a1.ctx, a1.pt, aux.to_sub.val)

\* the batch looking the aux up before it checks its arguments
mul_batch_lookup_first(ctx, pairs, window_size) ==
  LET aux == get_mul_aux(window_size, Len(pairs))
  IN IF aux.err # "none" THEN Res(Fail(ctx, aux.err), UNDEF)
     ELSE Res(Fail(ctx, "panic"), UNDEF)

mul_batch_1d_horizontal(ctx, pairs, window_size) ==
  IF window_size = 0 \/ Len(pairs) = 0 THEN Res(Fail(ctx, "panic"), UNDEF)
  ELSE LET aux == get_mul_aux(window_size, Len(pairs))
       IN IF aux.err # "none" THEN Res(Fail(ctx, aux.err), UNDEF)
          ELSE LET decomposed_scalars == DecomposeAll(ctx, pairs, 1, << >>)
                   padded == PadAll(decomposed_scalars.ctx, decomposed_scalars.all,
                                    window_size, 1, << >>)
                   windowed_scalars ==
                     [i \in 1..Len(pairs) |-> window(padded.all[i], window_size)]
               IN IF Failed(padded) THEN Abort(padded)
                  ELSE LET tables == Tables(padded.ctx, pairs, aux.to_add.val,
                                            window_size, 1, << >>)
                       IN IF Failed(tables) THEN Abort(tables)
                          ELSE BatchAccumulate(tables.ctx, windowed_scalars,
                                               tables.all, aux, window_size)

(***************************************************************************)
(* Operations of the chip as steps.  last records the most recent call:    *)
(* its arguments and what it returned.                                     *)
(***************************************************************************)
AssignPoint(point) ==
  /\ last' = [op |-> "assign_point", point |-> point,
              res |-> assign_point(NewCtx, point)]
  /\ UNCHANGED <<aux_generator, aux_registry, assigned>>

AssignAuxGenerator(point) ==
  LET r == assign_point(NewCtx, point)
  IN /\ assigned < MaxAssigned
     /\ IF r.ctx.err = "none"
        THEN /\ aux_generator' = [some |-> TRUE,
                                  assigned |-> AssignedPoint(r.pt, assigned + 1),
                                  point |-> point]
             /\ assigned' = assigned + 1
        ELSE UNCHANGED <<aux_generator, assigned>>
     /\ UNCHANGED aux_registry
     /\ last' = [op |-> "assign_aux_generator", point |-> point, res |-> r]

\* assign_aux witnessing an unknown point when no aux generator is assigned
assign_aux_unguarded(ctx, window_size, number_of_pairs) ==
  IF ~aux_generator.some THEN assign_point(ctx, NoneC)
  ELSE LET point == aux_generator.point
       IN IF point.kind = "none" THEN assign_point(ctx, NoneC)
          ELSE IF window_size = 0 \/ number_of_pairs = 0
               THEN Res(Fail(ctx, "panic"), UNDEF)
               ELSE assign_point(ctx, make_mul_aux(point, window_size,
                                                   number_of_pairs))

\* the point assign_aux witnesses, or the error that stops it
assign_aux(ctx, window_size, number_of_pairs) ==
  IF ~aux_generator.some THEN Res(Fail(ctx, "synthesis"), UNDEF)
  ELSE LET point == aux_generator.point
       IN IF point.kind = "none" THEN assign_point(ctx, NoneC)
          ELSE IF window_size = 0 \/ number_of_pairs = 0
               THEN Res(Fail(ctx, "panic"), UNDEF)
               ELSE assign_point(ctx, make_mul_aux(point, window_size,
                                                   number_of_pairs))

\* assign_aux inserting under its key before it knows the point
AssignAuxEager(window_size, number_of_pairs) ==
  LET r == assign_aux(NewCtx, window_size, number_of_pairs)
      key == <<window_size, number_of_pairs>>
  IN /\ assigned < MaxAssigned
     /\ aux_registry' =
          [k \in DOMAIN aux_registry \cup {key} |->
             IF k = key THEN AssignedPoint(r.pt, assigned + 1)
             ELSE aux_registry[k]]
     /\ assigned' = assigned + 1
     /\ UNCHANGED aux_generator
     /\ last' = [op |-> "assign_aux", window_size |-> window_size,
                 number_of_pairs |-> number_of_pairs, res |-> r]

\* assign_aux storing its point in a registry of its own
AssignAuxFresh(window_size, number_of_pairs) ==
  LET r == assign_aux(NewCtx, window_size, number_of_pairs)
      key == <<window_size, number_of_pairs>>
  IN /\ assigned < MaxAssigned
     /\ IF r.ctx.err = "none"
        THEN /\ aux_registry' = [k \in {key} |-> AssignedPoint(r.pt, assigned + 1)]
             /\ assigned' = assigned + 1
        ELSE UNCHANGED <<aux_registry, assigned>>
     /\ UNCHANGED aux_generator
     /\ last' = [op |-> "assign_aux", window_size |-> window_size,
                 number_of_pairs |-> number_of_pairs, res |-> r]

AssignAux(window_size, number_of_pairs) ==
  LET r == assign_aux(NewCtx, window_size, number_of_pairs)
      key == <<window_size, number_of_pairs>>
  IN /\ assigned < MaxAssigned
     /\ IF r.ctx.err = "none"
        THEN /\ aux_registry' =
                  [k \in DOMAIN aux_registry \cup {key} |->
                     IF k = key THEN AssignedPoint(r.pt, assigned + 1)
                     ELSE aux_registry[k]]
             /\ assigned' = assigned + 1
        ELSE UNCHANGED <<aux_registry, assigned>>
     /\ UNCHANGED aux_generator
     /\ last' = [op |-> "assign_aux", window_size |-> window_size,
                 number_of_pairs |-> number_of_pairs, res |-> r]

\* assign_aux as a constraint system: the cells of assign_point and its
\* on-curve assertion, with the value of the witness cells left to the
\* prover.  The derivation by make_mul_aux is computed off the circuit and
\* emits no constraint.
assign_aux_witness(ctx, window_size, number_of_pairs, witness) ==
  IF ~aux_generator.some THEN Res(Fail(ctx, "synthesis"), UNDEF)
  ELSE IF window_size = 0 \/ number_of_pairs = 0
       THEN Res(Fail(ctx, "panic"), UNDEF)
       ELSE assign_point(ctx, witness)

AssignAuxWitness(window_size, number_of_pairs, witness) ==
  LET r == assign_aux_witness(NewCtx, window_size, number_of_pairs, witness)
      key == <<window_size, number_of_pairs>>
  IN /\ assigned < MaxAssigned
     /\ r.ctx.sat
     /\ IF r.ctx.err = "none"
        THEN /\ aux_registry' =
                  [k \in DOMAIN aux_registry \cup {key} |->
                     IF k = key THEN AssignedPoint(r.pt, assigned + 1)
                     ELSE aux_registry[k]]
             /\ assigned' = assigned + 1
        ELSE UNCHANGED <<aux_registry, assigned>>
     /\ UNCHANGED aux_generator
     /\ last' = [op |-> "assign_aux", window_size |-> window_size,
                 number_of_pairs |-> number_of_pairs, res |-> r]

\* get_mul_aux taking the entry out of the registry instead of reading it
GetMulAuxTake(window_size, number_of_pairs) ==
  LET key == <<window_size, number_of_pairs>>
  IN /\ last' = [op |-> "get_mul_aux", window_size |-> window_size,
                 number_of_pairs |-> number_of_pairs,
                 aux |-> get_mul_aux(window_size, number_of_pairs),
                 calls |-> IF last.op = "get_mul_aux"
                              /\ last.window_size = window_size
                              /\ last.number_of_pairs = number_of_pairs
                           THEN 2 ELSE 1]
     /\ aux_registry' = [k \in DOMAIN aux_registry \ {key} |-> aux_registry[k]]
     /\ UNCHANGED <<aux_generator, assigned>>

\* calls: 2 when the previous call was get_mul_aux with the same key, else 1
GetMulAux(window_size, number_of_pairs) ==
  /\ last' = [op |-> "get_mul_aux", window_size |-> window_size,
              number_of_pairs |-> number_of_pairs,
              aux |-> get_mul_aux(window_size, number_of_pairs),
              calls |-> IF last.op = "get_mul_aux"
                           /\ last.window_size = window_size
                           /\ last.number_of_pairs = number_of_pairs
                        THEN 2 ELSE 1]
  /\ UNCHANGED <<aux_generator, aux_registry, assigned>>

Add(p0, p1) ==
  /\ last' = [op |-> "add", p0 |-> p0, p1 |-> p1, res |-> add(NewCtx, p0, p1)]
  /\ UNCHANGED <<aux_generator, aux_registry, assigned>>

Double(p) ==
  /\ last' = [op |-> "double", p0 |-> p, res |-> double(NewCtx, p)]
  /\ UNCHANGED <<aux_generator, aux_registry, assigned>>

Ladder(to_double, to_add) ==
  /\ last' = [op |-> "ladder", p0 |-> to_double, p1 |-> to_add,
              res |-> ladder(NewCtx, to_double, to_add)]
  /\ UNCHANGED <<aux_generator, aux_registry, assigned>>

Select(c, p1, p2) ==
  /\ last' = [op |-> "select", c |-> c, p0 |-> p1, p1 |-> p2,
              res |-> select(NewCtx, c, p1, p2)]
  /\ UNCHANGED <<aux_generator, aux_registry, assigned>>

Normalize(point) ==
  /\ last' = [op |-> "normalize", point |-> point, res |-> normalize(NewCtx, point)]
  /\ UNCHANGED <<aux_generator, aux_registry, assigned>>

Mul(point, scalar, window_size) ==
  /\ last' = [op |-> "mul", point |-> point, scalar |-> scalar,
              window_size |-> window_size,
              res |-> mul(NewCtx, point, scalar, window_size)]
  /\ UNCHANGED <<aux_generator, aux_registry, assigned>>

MulBatch(pairs, window_size) ==
  /\ last' = [op |-> "mul_batch_1d_horizontal", pairs |-> pairs,
              window_size |-> window_size,
              res |-> mul_batch_1d_horizontal(NewCtx, pairs, window_size)]
  /\ UNCHANGED <<aux_generator, aux_registry, assigned>>

ExposePublic(point, offset) ==
  /\ instance' = expose_public(instance, point, offset)
  /\ last' = [op |-> "expose_public", point |-> point, offset |-> offset]
  /\ UNCHANGED <<aux_generator, aux_registry, assigned>>

\* decompose, pad and window applied to a scalar
PadWindow(scalar, window_size) ==
  LET decomposed == decompose(NewCtx, scalar)
      padded == pad(decomposed.ctx, decomposed.bits, window_size)
  IN /\ last' = [op |-> "window", scalar |-> scalar, window_size |-> window_size,
                 padded |-> padded,
                 windowed |-> window(padded.bits, window_size)]
     /\ UNCHANGED <<aux_generator, aux_registry, assigned>>

MakeIncrementalTable(aux, point, window_size) ==
  /\ last' = [op |-> "make_incremental_table", aux |-> aux, point |-> point,
              window_size |-> window_size,
              res |-> make_incremental_table(NewCtx, aux, point, window_size)]
  /\ UNCHANGED <<aux_generator, aux_registry, assigned>>

\* select_multi on window number index (from 1) of a scalar; rounds[r] is the
\* reducer after r rounds
SelectMulti(table, scalar, window_size, index) ==
  LET decomposed == decompose(NewCtx, scalar)
      padded == pad(decomposed.ctx, decomposed.bits, window_size)
      windowed == window(padded.bits, window_size)
  IN /\ index \in DOMAIN windowed
     /\ last' = [op |-> "select_multi", table |-> table, scalar |-> scalar,
                 window_size |-> window_size, index |-> index,
                 padded |-> padded.bits, selector |-> windowed[index],
                 res |-> select_multi(NewCtx, windowed[index], table),
                 rounds |-> IF Len(table) # Pow2(window_size) THEN << >>
                            ELSE [r \in 0..window_size |->
                                    SelectRound(NewCtx, table, windowed[index],
                                                0, 0, r).table]]
     /\ UNCHANGED <<aux_generator, aux_registry, assigned>>

(***************************************************************************)
(* Spec: a chip driven by any caller, in any order.                        *)
(***************************************************************************)
NoCall == [op |-> "new"]
\* the instance column with no cell bound to it
NoInstance == {}
NoCircuit == [window_size |-> 0, number_of_pairs |-> 0, aux_generator |-> NoneC]

TestPoints == {CurveTable[1], CurveTable[5]}
TestScalars == {0, ScalarModulus - 1}
GeneratorInputs == {NoneC, INF, CurveTable[3], CurveTable[7]}
\* the keys (window_size, number_of_pairs) and the window sizes of the caller
TestKeys == {<<0, 1>>, <<1, 1>>, <<1, 2>>, <<2, 1>>}
TestWindows == {0, 1, 2}

Pair(point, scalar) == [point |-> point, scalar |-> scalar]

\* the pair lists of the free caller: up to two pairs of one point
TestPairLists ==
  UNION {[1..n -> {Pair(CurveTable[1], 2)}] : n \in {0, 1, 2}}

Init ==
  /\ new_chip
  /\ last = NoCall
  /\ instance = NoInstance
  /\ pc = "any"
  /\ circuit = NoCircuit

Next ==
  \/ \E point \in GeneratorInputs : AssignPoint(point) /\ UNCHANGED <<pc, circuit, instance>>
  \/ \E point \in GeneratorInputs :
       AssignAuxGenerator(point) /\ UNCHANGED <<pc, circuit, instance>>
  \/ \E key \in TestKeys : AssignAux(key[1], key[2]) /\ UNCHANGED <<pc, circuit, instance>>
  \/ \E key \in TestKeys : GetMulAux(key[1], key[2]) /\ UNCHANGED <<pc, circuit, instance>>
  \/ \E p0 \in TestPoints, p1 \in TestPoints : Add(p0, p1) /\ UNCHANGED <<pc, circuit, instance>>
  \/ \E p \in TestPoints : Double(p) /\ UNCHANGED <<pc, circuit, instance>>
  \/ \E p0 \in TestPoints, p1 \in TestPoints :
       Ladder(p0, p1) /\ UNCHANGED <<pc, circuit, instance>>
  \/ \E point \in TestPoints, scalar \in TestScalars, w \in TestWindows :
       Mul(point, scalar, w) /\ UNCHANGED <<pc, circuit, instance>>
  \/ \E pairs \in TestPairLists, w \in TestWindows :
       MulBatch(pairs, w) /\ UNCHANGED <<pc, circuit, instance>>

Spec == Init /\ [][Next]_vars

(***************************************************************************)
(* SpecOps: the point operations on every pair of curve points, as the     *)
(* addition test circuit drives them with random points.                   *)
(***************************************************************************)
InitOps ==
  /\ new_chip
  /\ last = NoCall
  /\ instance = NoInstance
  /\ pc = "region 0"
  /\ circuit = NoCircuit

NextOps ==
  \/ \E a \in CurvePoints, b \in CurvePoints : Add(a, b) /\ UNCHANGED <<pc, circuit, instance>>
  \/ \E a \in CurvePoints : Double(a) /\ UNCHANGED <<pc, circuit, instance>>
  \/ \E a \in CurvePoints, b \in CurvePoints :
       Ladder(a, b) /\ UNCHANGED <<pc, circuit, instance>>

SpecOps == InitOps /\ [][NextOps]_vars

(***************************************************************************)
(* SpecChip: every operation of the chip, called in any order.             *)
(***************************************************************************)
ChipGenerators == {NoneC, CurveTable[3], CurveTable[7]}
ChipKeys == {<<0, 1>>, <<1, 1>>, <<1, 2>>, <<2, 1>>}
ChipPoints == {CurveTable[1], CurveTable[5]}
ChipPairLists == UNION {[1..n -> {Pair(CurveTable[1], 2)}] : n \in {1, 2}}

InitChip ==
  /\ new_chip
  /\ last = NoCall
  /\ instance = NoInstance
  /\ pc = "any"
  /\ circuit = NoCircuit

Caller == UNCHANGED <<pc, circuit>>

NextChip ==
  \/ \E point \in ChipGenerators :
       AssignAuxGenerator(point) /\ Caller /\ UNCHANGED instance
  \/ \E key \in ChipKeys : AssignAux(key[1], key[2]) /\ Caller /\ UNCHANGED instance
  \/ \E key \in ChipKeys : GetMulAux(key[1], key[2]) /\ Caller /\ UNCHANGED instance
  \/ \E point \in ChipPoints : AssignPoint(point) /\ Caller /\ UNCHANGED instance
  \/ \E p0 \in ChipPoints, p1 \in ChipPoints : Add(p0, p1) /\ Caller /\ UNCHANGED instance
  \/ \E p \in ChipPoints : Double(p) /\ Caller /\ UNCHANGED instance
  \/ \E p0 \in ChipPoints, p1 \in ChipPoints :
       Ladder(p0, p1) /\ Caller /\ UNCHANGED instance
  \/ \E c \in {0, 1}, p0 \in ChipPoints, p1 \in ChipPoints :
       Select(c, p0, p1) /\ Caller /\ UNCHANGED instance
  \/ \E p \in ChipPoints : Normalize(p) /\ Caller /\ UNCHANGED instance
  \/ \E p \in ChipPoints : ExposePublic(p, 0) /\ Caller
  \/ \E point \in ChipPoints, scalar \in TestScalars, key \in ChipKeys :
       Mul(point, scalar, key[1]) /\ Caller /\ UNCHANGED instance
  \/ \E pairs \in ChipPairLists, key \in ChipKeys :
       MulBatch(pairs, key[1]) /\ Caller /\ UNCHANGED instance

SpecChip == InitChip /\ [][NextChip]_vars

(***************************************************************************)
(* SpecMul: the multiplication test circuit.  The circuit fixes the window *)
(* size and the aux generator; synthesis assigns the aux values, reads     *)
(* them back, and multiplies a random point by a random scalar.            *)
(***************************************************************************)
\* where synthesis continues after a call: `?` returns the error to the caller
After(call, next) == IF call.res.ctx.err = "none" THEN next ELSE "failed"

(***************************************************************************)
(* SpecPublic: the public-input test circuit.  Region 0 assigns a and b    *)
(* and exposes the normalized a + b from row 0; region 1 exposes the       *)
(* normalized double of a from the row after the first point's limbs.      *)
(***************************************************************************)
InitPublic ==
  /\ new_chip
  /\ last = NoCall
  /\ instance = NoInstance
  /\ pc = "region 0"
  /\ circuit \in {[a |-> a, b |-> b] : a \in CurvePoints, b \in CurvePoints}

\* the sum computed by region 0
Region0(a, b) ==
  LET ra == assign_point(NewCtx, a)
  IN IF Failed(ra) THEN ra
     ELSE LET rb == assign_point(ra.ctx, b)
          IN IF Failed(rb) THEN rb
             ELSE LET c == add(rb.ctx, ra.pt, rb.pt)
                  IN IF Failed(c) THEN c ELSE normalize(c.ctx, c.pt)

\* the sum computed by region 1
Region1(a) ==
  LET ra == assign_point(NewCtx, a)
  IN IF Failed(ra) THEN ra
     ELSE LET c == double(ra.ctx, ra.pt)
          IN IF Failed(c) THEN c ELSE normalize(c.ctx, c.pt)

SynthRegion0 ==
  /\ pc = "region 0"
  /\ last' = [op |-> "region", res |-> Region0(circuit.a, circuit.b)]
  /\ pc' = After(last', "expose 0")
  /\ UNCHANGED <<aux_generator, aux_registry, assigned, circuit, instance>>

SynthExpose0 ==
  /\ pc = "expose 0"
  /\ ExposePublic(last.res.pt, 0)
  /\ pc' = "region 1"
  /\ UNCHANGED circuit

SynthRegion1 ==
  /\ pc = "region 1"
  /\ last' = [op |-> "region", res |-> Region1(circuit.a)]
  /\ pc' = After(last', "expose 1")
  /\ UNCHANGED <<aux_generator, aux_registry, assigned, circuit, instance>>

SynthExpose1 ==
  /\ pc = "expose 1"
  /\ ExposePublic(last.res.pt, 2 * NUMBER_OF_LIMBS)
  /\ pc' = "done"
  /\ UNCHANGED circuit

NextPublic ==
  \/ SynthRegion0
  \/ SynthExpose0
  \/ SynthRegion1
  \/ SynthExpose1

SpecPublic == InitPublic /\ [][NextPublic]_vars

InitMul ==
  /\ new_chip
  /\ last = NoCall
  /\ instance = NoInstance
  /\ pc = "assign_aux_generator"
  /\ circuit \in {[window_size |-> w, number_of_pairs |-> 1, aux_generator |-> g] :
                    w \in 1..MaxWindow, g \in CurvePoints}

SynthAssignAuxGenerator ==
  /\ pc = "assign_aux_generator"
  /\ AssignAuxGenerator(circuit.aux_generator)
  /\ pc' = After(last', "assign_aux")
  /\ UNCHANGED <<circuit, instance>>

SynthAssignAux ==
  /\ pc = "assign_aux"
  /\ AssignAux(circuit.window_size, circuit.number_of_pairs)
  /\ pc' = After(last', "get_mul_aux")
  /\ UNCHANGED <<circuit, instance>>

SynthGetMulAux ==
  /\ pc = "get_mul_aux"
  /\ GetMulAux(circuit.window_size, circuit.number_of_pairs)
  /\ pc' = IF last'.aux.err = "none" THEN "region 0" ELSE "failed"
  /\ UNCHANGED <<circuit, instance>>

SynthMul ==
  /\ pc = "region 0"
  /\ \E base \in CurvePoints, s \in Scalars : Mul(base, s, circuit.window_size)
  /\ pc' = "done"
  /\ UNCHANGED <<circuit, instance>>

NextMul ==
  \/ SynthAssignAuxGenerator
  \/ SynthAssignAux
  \/ SynthGetMulAux
  \/ SynthMul

SpecMul == InitMul /\ [][NextMul]_vars

(***************************************************************************)
(* SpecWide: the multiplication circuit with a window as wide as the       *)
(* scalar or wider, so that the padded scalar is a single window.          *)
(***************************************************************************)
WideWindows == {NUM_BITS, NUM_BITS + 1}
WideGenerators == {CurveTable[4], CurveTable[7], CurveTable[11]}

InitWide ==
  /\ new_chip
  /\ last = NoCall
  /\ instance = NoInstance
  /\ pc = "assign_aux_generator"
  /\ circuit \in {[window_size |-> w, number_of_pairs |-> 1, aux_generator |-> g] :
                    w \in WideWindows, g \in WideGenerators}

SpecWide == InitWide /\ [][NextMul]_vars

(***************************************************************************)
(* SpecProver: the multiplication circuit with the witness of the registry *)
(* point chosen by the prover among the values that satisfy the            *)
(* constraints assign_aux emits.                                           *)
(***************************************************************************)
ProverWindows == {1, 2}
ProverGenerators == {CurveTable[4], CurveTable[7], CurveTable[11]}

\* the derived point, and points the derivation does not give
ProverWitnesses(window_size, number_of_pairs) ==
  {make_mul_aux(aux_generator.point, window_size, number_of_pairs),
   CurveTable[2], CurveTable[9], Pt(1, 1)}

InitProver ==
  /\ new_chip
  /\ last = NoCall
  /\ instance = NoInstance
  /\ pc = "assign_aux_generator"
  /\ circuit \in {[window_size |-> w, number_of_pairs |-> 1, aux_generator |-> g] :
                    w \in ProverWindows, g \in ProverGenerators}

ProverAssignAux ==
  /\ pc = "assign_aux"
  /\ \E witness \in ProverWitnesses(circuit.window_size, circuit.number_of_pairs) :
       AssignAuxWitness(circuit.window_size, circuit.number_of_pairs, witness)
  /\ pc' = After(last', "get_mul_aux")
  /\ UNCHANGED <<circuit, instance>>

NextProver ==
  \/ SynthAssignAuxGenerator
  \/ ProverAssignAux
  \/ SynthGetMulAux
  \/ SynthMul

SpecProver == InitProver /\ [][NextProver]_vars

(***************************************************************************)
(* GeneralEccChip, the variant that carries the point at infinity as an    *)
(* identity flag, and the start of its addition test circuit: the points   *)
(* x and y assigned one after the other in region 0.                       *)
(***************************************************************************)
RnsPoint(x, y, is_identity) == [x |-> x, y |-> y, is_identity |-> is_identity]

\* point is a curve point, finite or the point at infinity
into_rns_point(point) ==
  IF point.kind = "pt" THEN RnsPoint(point.x, point.y, FALSE)
  ELSE RnsPoint(0, 0, TRUE)

FlaggedPoint(x, y, z) == [x |-> x, y |-> y, z |-> z]

\* assign_point refusing the point at infinity, as the base field chip does
general_assign_point_strict(ctx, point) ==
  IF point.kind # "pt" THEN [ctx |-> Fail(ctx, "panic"), pt |-> FlaggedPoint(0, 0, 0)]
  ELSE [ctx |-> Emit(Emit(Emit(ctx, "assign_integer"), "assign_integer"),
                     "assign_bit"),
        pt |-> FlaggedPoint(point.x, point.y, 0)]

\* GeneralEccChip::assign_point
general_assign_point(ctx, point) ==
  LET p == into_rns_point(point)
      c == Emit(Emit(Emit(ctx, "assign_integer"), "assign_integer"), "assign_bit")
      z == IF p.is_identity THEN 1 ELSE 0
  IN [ctx |-> c, pt |-> FlaggedPoint(p.x, p.y, z)]

GeneralAssignPoint(point) ==
  /\ last' = [op |-> "general.assign_point", point |-> point,
              res |-> general_assign_point(NewCtx, point)]
  /\ UNCHANGED <<aux_generator, aux_registry, assigned>>

GeneralPoints == CurvePoints \cup {INF}

InitGeneral ==
  /\ new_chip
  /\ last = NoCall
  /\ instance = NoInstance
  /\ pc = "px"
  /\ circuit \in {[x |-> a, y |-> b] : a \in GeneralPoints, b \in GeneralPoints}

SynthGeneralPx ==
  /\ pc = "px"
  /\ GeneralAssignPoint(circuit.x)
  /\ pc' = After(last', "py")
  /\ UNCHANGED <<circuit, instance>>

SynthGeneralPy ==
  /\ pc = "py"
  /\ GeneralAssignPoint(circuit.y)
  /\ pc' = After(last', "add")
  /\ UNCHANGED <<circuit, instance>>

NextGeneral ==
  \/ SynthGeneralPx
  \/ SynthGeneralPy

SpecGeneral == InitGeneral /\ [][NextGeneral]_vars

(***************************************************************************)
(* SpecBatch: the batch multiplication test circuit.                       *)
(***************************************************************************)
BatchPoints == {CurveTable[1], CurveTable[2]}
BatchScalars == {0, 11, ScalarModulus - 1}
BatchGenerators == {CurveTable[4], CurveTable[7], CurveTable[11]}

InitBatch ==
  /\ new_chip
  /\ last = NoCall
  /\ instance = NoInstance
  /\ pc = "assign_aux_generator"
  /\ circuit \in {[window_size |-> w, number_of_pairs |-> n, aux_generator |-> g] :
                    w \in 1..MaxBatchWindow, n \in 1..MaxPairs,
                    g \in BatchGenerators}

SynthMulBatch ==
  /\ pc = "region 0"
  /\ \E pairs \in [1..circuit.number_of_pairs ->
                     {Pair(b, s) : b \in BatchPoints, s \in BatchScalars}] :
       MulBatch(pairs, circuit.window_size)
  /\ pc' = "done"
  /\ UNCHANGED <<circuit, instance>>

NextBatch ==
  \/ SynthAssignAuxGenerator
  \/ SynthAssignAux
  \/ SynthGetMulAux
  \/ SynthMulBatch

SpecBatch == InitBatch /\ [][NextBatch]_vars

(***************************************************************************)
(* SpecParts: the steps of the multiplications taken one at a time, on     *)
(* every scalar, every pair of points and every window size.               *)
(***************************************************************************)
\* a table of 2^w pairwise different entries
IndexTable(w) ==
  [i \in 1..Pow2(w) |-> Pt((i - 1) % BaseModulus, (i - 1) \div BaseModulus)]

TestTables(w) ==
  {IndexTable(w),
   make_incremental_table(NewCtx, CurveTable[7], CurveTable[1], w).table}

InitParts ==
  /\ new_chip
  /\ last = NoCall
  /\ instance = NoInstance
  /\ pc = "input"
  /\ circuit = NoCircuit

\* each step is applied once, to one input
Once == pc = "input" /\ pc' = "done" /\ UNCHANGED <<circuit, instance>>

ApplyPadWindow ==
  /\ Once
  /\ \E scalar \in Scalars, w \in 1..(NUM_BITS + MaxWindow) : PadWindow(scalar, w)

ApplyMakeIncrementalTable ==
  /\ Once
  /\ \E aux \in CurvePoints, point \in CurvePoints, w \in 1..MaxWindow :
       MakeIncrementalTable(aux, point, w)

ApplySelectMulti ==
  /\ Once
  /\ \E scalar \in Scalars, w \in 1..MaxWindow, tw \in 1..MaxWindow,
          index \in 1..NUM_BITS :
       \E table \in TestTables(tw) : SelectMulti(table, scalar, w, index)

NextParts ==
  \/ ApplyPadWindow
  \/ ApplyMakeIncrementalTable
  \/ ApplySelectMulti

SpecParts == InitParts /\ [][NextParts]_vars

\* the off-circuit sum of s_i * P_i
RECURSIVE GroupSum(_, _)
GroupSum(pairs, i) ==
  IF i > Len(pairs) THEN INF
  ELSE GroupAdd(GroupMul(pairs[i].point, pairs[i].scalar), GroupSum(pairs, i + 1))

(***************************************************************************)
(* Claims.                                                                 *)
(***************************************************************************)
IsMul == last.op = "mul"
IsBatch == last.op = "mul_batch_1d_horizontal"
IsGet == last.op = "get_mul_aux"
Key(call) == <<call.window_size, call.number_of_pairs>>

\* C1 as stated: with the aux values assigned, mul(P, s, w) succeeds with a
\* satisfiable constraint set for every P, s and w in 1..4, and returns s * P.
C1_MulAlwaysSucceeds ==
  (IsMul /\ last.window_size \in 1..4) =>
    (Ok(last.res) /\ last.res.pt = GroupMul(last.point, last.scalar))

\* C1 amended: whenever mul's constraints are satisfiable and no incomplete
\* formula met its exceptional domain, the result is s * P; a zero scalar never
\* gets that far, because s * P is then the point at infinity.
C1_MulCorrect ==
  IsMul =>
    /\ Ok(last.res) => last.res.pt = GroupMul(last.point, last.scalar)
    /\ last.scalar = 0 => ~Ok(last.res)

C1_Witness ==
  /\ IsMul /\ Ok(last.res)
  /\ last.scalar = ScalarModulus - 1
  /\ last.window_size = 4

\* C2 as stated: with the aux values assigned, mul_batch_1d_horizontal returns
\* the group sum of s_i * P_i for every list of pairs.
C2_BatchAlwaysSucceeds ==
  IsBatch => (Ok(last.res) /\ last.res.pt = GroupSum(last.pairs, 1))

\* C2 amended: whenever the batch's constraints are satisfiable and no
\* incomplete formula met its exceptional domain, the result is the group sum
\* of s_i * P_i; a sum that is the point at infinity never gets that far.
C2_BatchCorrect ==
  IsBatch =>
    /\ Ok(last.res) => last.res.pt = GroupSum(last.pairs, 1)
    /\ GroupSum(last.pairs, 1) = INF => ~Ok(last.res)

C2_Witness ==
  /\ IsBatch /\ Ok(last.res)
  /\ Len(last.pairs) = 4
  /\ last.window_size = 2
  /\ \E i \in 1..4 : last.pairs[i].scalar # 0

\* what the group law gives for the last point operation
Expected(call) ==
  CASE call.op = "add" -> GroupAdd(call.p0, call.p1)
    [] call.op = "double" -> GroupAdd(call.p0, call.p0)
    [] call.op = "ladder" -> GroupAdd(GroupAdd(call.p0, call.p0), call.p1)

DistinctX(call) == call.op = "double" \/ call.p0.x # call.p1.x

\* C3 as stated: for all P, Q with distinct x-coordinates, add(P, Q) = P + Q,
\* double(P) = P + P and ladder(P, Q) = 2P + Q.
C3_OpsAgreeDistinctX ==
  (last.op \in {"add", "double", "ladder"} /\ DistinctX(last)) =>
    (Ok(last.res) /\ last.res.pt = Expected(last))

\* C3 amended: the same, for the ladder only when 2P + Q is a finite point,
\* that is when Q # -2P (where P + Q = -P and the second chord is undefined).
C3_OpsAgree ==
  (/\ last.op \in {"add", "double", "ladder"}
   /\ DistinctX(last)
   /\ Expected(last) # INF) =>
    (Ok(last.res) /\ last.res.pt = Expected(last))

C3_Witness ==
  /\ last.op = "ladder"
  /\ last.p0.x # last.p1.x
  /\ Ok(last.res)
  /\ last.res.pt = GroupAdd(GroupAdd(last.p0, last.p0), last.p1)

\* C4: add asserts x_P # x_Q before the incomplete formula, so an addition of
\* points with equal x (P = Q or P = -Q) is unsatisfiable and yields no point.
C4_AddRejectsEqualX ==
  last.op = "add" =>
    /\ last.res.ctx.ops = <<"assert_not_equal", "add_incomplete_unsafe">>
    /\ last.p0.x = last.p1.x => (~last.res.ctx.sat /\ last.res.pt.kind # "pt")

C4_Witness ==
  /\ last.op = "add"
  /\ last.p0 = GroupNeg(last.p1)
  /\ ~last.res.ctx.sat

\* C5: get_mul_aux(w, n) is a synthesis error exactly when the aux generator is
\* not assigned or the registry has no entry under the key (w, n).
C5_GetMulAuxFails ==
  IsGet =>
    /\ last.aux.err \in {"none", "synthesis"}
    /\ last.aux.err = "synthesis" <=>
         (~aux_generator.some \/ Key(last) \notin DOMAIN aux_registry)

C5_Witness ==
  /\ IsGet
  /\ last.aux.err = "synthesis"
  /\ aux_generator.some
  /\ <<last.number_of_pairs, last.window_size>> \in DOMAIN aux_registry

C7_MatchedPair ==
  (/\ IsGet
   /\ last.aux.err = "none"
   /\ last.window_size >= 1
   /\ last.number_of_pairs >= 1
   /\ last.aux.to_add.val.kind = "pt"
   /\ last.aux.to_sub.val.kind = "pt") =>
    last.aux.to_sub.val =
      make_mul_aux(last.aux.to_add.val, last.window_size, last.number_of_pairs)

\* C8: once a point is in the registry under a key, no step removes or
\* replaces that entry.
C8_RegistryAppendOnly ==
  [][\A k \in DOMAIN aux_registry :
       k \in DOMAIN aux_registry' /\ aux_registry'[k] = aux_registry[k]]_vars

\* C9: once the aux generator is assigned, no step changes it.
C9_GeneratorSetOnce ==
  [][aux_generator.some => aux_generator' = aux_generator]_vars

\* C10: with a window size >= 1 (and at least one pair), a multiplication
\* whose aux data is missing - key (w, 1) for mul, (w, n) for the batch - fails
\* with the synthesis error of the lookup, before any operation is emitted.
C10_MissingAuxFailsFirst ==
  /\ (IsMul /\ last.window_size >= 1
        /\ get_mul_aux(last.window_size, 1).err # "none") =>
       (last.res.ctx.err = "synthesis" /\ last.res.ctx.ops = << >>)
  /\ (IsBatch /\ last.window_size >= 1 /\ Len(last.pairs) >= 1
        /\ get_mul_aux(last.window_size, Len(last.pairs)).err # "none") =>
       (last.res.ctx.err = "synthesis" /\ last.res.ctx.ops = << >>)

C10_Witness ==
  /\ IsBatch
  /\ Len(last.pairs) = 2
  /\ last.res.ctx.err = "synthesis"
  /\ get_mul_aux(last.window_size, 1).err = "none"

\* C11: mul with a zero window size, and the batch with a zero window size or
\* an empty pair list, stop on the failed precondition (a panic, not the
\* synthesis error of the aux lookup) with no operation emitted, whatever aux
\* data is assigned.
C11_ZeroRejectedFirst ==
  /\ (IsMul /\ last.window_size = 0) =>
       (last.res.ctx.err = "panic" /\ last.res.ctx.ops = << >>)
  /\ (IsBatch /\ (last.window_size = 0 \/ Len(last.pairs) = 0)) =>
       (last.res.ctx.err = "panic" /\ last.res.ctx.ops = << >>)

C11_Witness ==
  /\ IsBatch
  /\ last.window_size = 0
  /\ Len(last.pairs) = 2
  /\ get_mul_aux(0, 2).err = "synthesis"
  /\ last.res.ctx.err = "panic"

\* C14: assign_point(None) succeeds with unknown coordinates; assign_point of
\* a finite point assigns (x, y) and emits the on-curve assertion;
\* assign_point of the point at infinity returns an error to its caller and
\* produces no point.
C14_AssignPoint ==
  last.op = "assign_point" =>
    /\ last.point.kind = "none" =>
         (last.res.ctx.err = "none" /\ last.res.pt = NoneC)
    /\ last.point.kind = "pt" =>
         /\ last.res.ctx.err = "none"
         /\ last.res.pt = last.point
         /\ \E i \in DOMAIN last.res.ctx.ops :
              last.res.ctx.ops[i] = "assert_is_on_curve"
    /\ last.point.kind = "inf" =>
         (last.res.ctx.err = "synthesis" /\ last.res.pt.kind = "undef")

\* C12: for every window size w >= 1, windows as wide as the scalar included,
\* mul with the aux data of (w, 1) assigned runs to its end without a failed
\* precondition.
C12_MulCompletes ==
  (IsMul /\ last.window_size >= 1 /\ get_mul_aux(last.window_size, 1).err = "none")
    => last.res.ctx.err = "none"

\* the rows that expose_public(point, offset) binds, and the cell at each
ExposedRows(call) == call.offset..(call.offset + 2 * NUMBER_OF_LIMBS - 1)

ExposedCell(call, row) ==
  IF row < call.offset + NUMBER_OF_LIMBS
  THEN Cell(call.point, "x", row - call.offset)
  ELSE Cell(call.point, "y", row - call.offset - NUMBER_OF_LIMBS)

\* C13: expose_public(point, offset) binds exactly the 2k rows offset ..
\* offset + 2k - 1: x limb i to row offset + i and y limb j to row
\* offset + k + j, so the rows read in order hold the limbs of x then the
\* limbs of y, least significant limb first (for a point with known value).
C13_ExposeBinds ==
  [][last'.op = "expose_public" =>
       /\ instance' = instance \cup
            {[row |-> r, cell |-> ExposedCell(last', r)] : r \in ExposedRows(last')}
       /\ \A i \in 0..(NUMBER_OF_LIMBS - 1) : last'.point.kind = "pt" =>
            /\ \E e \in instance' :
                 /\ e.row = last'.offset + i
                 /\ e.cell.value = (last'.point.x \div Pow2(i)) % 2
            /\ \E e \in instance' :
                 /\ e.row = last'.offset + NUMBER_OF_LIMBS + i
                 /\ e.cell.value = (last'.point.y \div Pow2(i)) % 2]_vars

C13_Witness ==
  /\ last.op = "expose_public"
  /\ last.offset = 2 * NUMBER_OF_LIMBS
  /\ last.point.kind = "pt"
  /\ Cardinality(instance) = 4 * NUMBER_OF_LIMBS
  /\ {e.row : e \in instance} = 0..(4 * NUMBER_OF_LIMBS - 1)

\* C15: make_incremental_table(aux, P, w) returns 2^w entries, table[0] = aux,
\* built by 2^w - 1 additions through add (assertion, then formula) and nothing
\* else; every entry the additions leave defined is table[i] = aux + i * P, and
\* all are when no addition meets equal x-coordinates.
C15_IncrementalTable ==
  last.op = "make_incremental_table" =>
    LET table == last.res.table
        ops == last.res.ctx.ops
        table_size == Pow2(last.window_size)
    IN /\ last.res.ctx.err = "none"
       /\ Len(table) = table_size
       /\ table[1] = last.aux
       /\ Len(ops) = 2 * (table_size - 1)
       /\ \A i \in 1..(table_size - 1) :
            /\ ops[2 * i - 1] = "assert_not_equal"
            /\ ops[2 * i] = "add_incomplete_unsafe"
            /\ table[i + 1].kind = "pt" =>
                 table[i + 1] = GroupAdd(last.aux, GroupMul(last.point, i))
            /\ last.res.ctx.sat => table[i + 1].kind = "pt"

C15_Witness ==
  /\ last.op = "make_incremental_table"
  /\ last.window_size = 4
  /\ last.res.ctx.sat
  /\ last.res.table[16] = GroupAdd(last.aux, GroupMul(last.point, 15))

\* the bits of window number index, most significant first, as they stand in
\* the padded scalar, and the integer they spell
WindowBits(call) ==
  [j \in 1..call.window_size |->
     call.padded[(call.index - 1) * call.window_size + j]]

RECURSIVE BitsValue(_, _)
BitsValue(bits, n) ==
  IF n = 0 THEN 0 ELSE 2 * BitsValue(bits, n - 1) + bits[n]

\* C16: on a table of 2^w entries, select_multi returns table[v] for the
\* window's integer value v, its bits read most significant first in the
\* padded scalar.
C16_SelectMulti ==
  (last.op = "select_multi" /\ Len(last.table) = Pow2(last.window_size)) =>
    /\ last.res.ctx.err = "none"
    /\ last.res.pt = last.table[BitsValue(WindowBits(last), last.window_size) + 1]

C16_Witness ==
  /\ last.op = "select_multi"
  /\ last.window_size = 3
  /\ Len(last.table) = 8
  /\ WindowBits(last) = <<1, 1, 0>>
  /\ last.res.pt = last.table[7]
  /\ last.table[7] # last.table[4]

\* the reducer after round r + 1 is the reducer after round r halved by bit:
\* entry j becomes entry 2j + bit
HalvedBy(call, r, bit) ==
  \A j \in 1..Pow2(call.window_size - 1 - r) :
    call.rounds[r + 1][j] = call.rounds[r][2 * (j - 1) + bit + 1]

\* C17 as stated: round r of select_multi is driven by the r-th most
\* significant bit of the window.
C17_RoundsMsbFirst ==
  (last.op = "select_multi" /\ Len(last.table) = Pow2(last.window_size)) =>
    \A r \in 0..(last.window_size - 1) : HalvedBy(last, r, WindowBits(last)[r + 1])

\* C17 amended: round r of select_multi is driven by the r-th least
\* significant bit of the window: round 0 consumes the least significant
\* selector bit and the last round the most significant one.
C17_RoundsLsbFirst ==
  (last.op = "select_multi" /\ Len(last.table) = Pow2(last.window_size)) =>
    \A r \in 0..(last.window_size - 1) :
      HalvedBy(last, r, WindowBits(last)[last.window_size - r])

C17_Witness ==
  /\ last.op = "select_multi"
  /\ last.window_size = 2
  /\ Len(last.table) = 4
  /\ WindowBits(last) = <<1, 0>>
  /\ last.table[1] # last.table[2]
  /\ last.rounds[1][1] = last.table[1]
  /\ last.rounds[1][2] = last.table[3]
  /\ last.rounds[2][1] = last.table[3]

\* the integer value of a window as select_multi reads its selector
SelectorValue(selector) ==
  BitsValue([j \in 1..Len(selector) |-> selector[Len(selector) + 1 - j]],
            Len(selector))

RECURSIVE WindowsValue(_, _, _)
WindowsValue(windowed, window_size, k) ==
  IF k = 0 THEN 0
  ELSE Pow2(window_size) * WindowsValue(windowed, window_size, k - 1)
         + SelectorValue(windowed[k])

\* C18: pad and window turn the NUM_BITS bits of a scalar s into
\* ceil(NUM_BITS / w) windows of w bits; fewer than w zero bits are added (none
\* when w divides NUM_BITS), all at the most significant end; the window
\* values, most significant window first, spell s in base 2^w.
C18_PadWindow ==
  last.op = "window" =>
    LET w == last.window_size
        k == Len(last.windowed)
        added == Len(last.padded.bits) - NUM_BITS
    IN /\ last.padded.ctx.err = "none"
       /\ k * w >= NUM_BITS /\ (k - 1) * w < NUM_BITS
       /\ added >= 0 /\ added < w
       /\ NUM_BITS % w = 0 => added = 0
       /\ Len(last.padded.bits) = k * w
       /\ \A i \in 1..added : last.padded.bits[i] = 0
       /\ \A i \in 1..NUM_BITS :
            last.padded.bits[added + i] = (last.scalar \div Pow2(NUM_BITS - i)) % 2
       /\ \A i \in 1..k :
            /\ Len(last.windowed[i]) = w
            /\ SelectorValue(last.windowed[i]) \in 0..(Pow2(w) - 1)
       /\ WindowsValue(last.windowed, w, k) = last.scalar

C18_Witness ==
  /\ last.op = "window"
  /\ last.window_size = 3
  /\ last.scalar = ScalarModulus - 1
  /\ Len(last.windowed) = 2
  /\ SelectorValue(last.windowed[1]) = 2
  /\ SelectorValue(last.windowed[2]) = 2

\* the plain schedule: every window after the first is double_n by w, then
\* add of the window's selection
RECURSIVE PlainLoop(_, _, _, _, _, _)
PlainLoop(ctx, acc, windowed, i, table, window_size) ==
  IF i > Len(windowed) THEN Res(ctx, acc)
  ELSE LET d == double_n(ctx, acc, window_size)
       IN IF Failed(d) THEN d
          ELSE LET to_add == select_multi(d.ctx, windowed[i], table)
               IN IF Failed(to_add) THEN to_add
                  ELSE LET a == add(to_add.ctx, d.pt, to_add.pt)
                       IN IF Failed(a) THEN a
                          ELSE PlainLoop(a.ctx, a.pt, windowed, i + 1, table,
                                         window_size)

PlainSchedule(ctx, windowed, table, window_size) ==
  LET s0 == select_multi(ctx, windowed[1], table)
  IN IF Failed(s0) THEN s0
     ELSE PlainLoop(s0.ctx, s0.pt, windowed, 2, table, window_size)

\* the accumulators of the mul call: by mul's schedule and by the plain one
Accumulators(call) ==
  LET aux == get_mul_aux(call.window_size, 1)
      decomposed == decompose(NewCtx, call.scalar)
      padded == pad(decomposed.ctx, decomposed.bits, call.window_size)
      windowed == window(padded.bits, call.window_size)
      t == make_incremental_table(padded.ctx, aux.to_add.val, call.point,
                                  call.window_size)
  IN [aux |-> aux,
      windows |-> Len(windowed),
      mul |-> MulSchedule(t.ctx, windowed, t.table, call.window_size),
      plain |-> PlainSchedule(t.ctx, windowed, t.table, call.window_size)]

HasAux(call) ==
  call.window_size >= 1 /\ get_mul_aux(call.window_size, 1).err = "none"

RECURSIVE Count(_, _, _)
Count(ops, name, n) ==
  IF n = 0 THEN 0
  ELSE Count(ops, name, n - 1) + (IF ops[n] = name THEN 1 ELSE 0)

Doublings(r) == Count(r.ctx.ops, "double_incomplete", Len(r.ctx.ops))
Ladders(r) == Count(r.ctx.ops, "ladder_incomplete", Len(r.ctx.ops))

\* C19: mul's schedule and the plain schedule end in the same accumulator
\* whenever both stay outside the exceptional cases of their formulas, for
\* every scalar and every w (w = 1 included); mul has one ladder per window
\* after the second and exactly that many doublings fewer; mul's result is
\* the final correction applied to this accumulator.
C19_LadderSchedule ==
  (IsMul /\ HasAux(last)) =>
    LET a == Accumulators(last)
    IN (a.mul.ctx.err = "none" /\ a.plain.ctx.err = "none") =>
         /\ (Ok(a.mul) /\ Ok(a.plain)) => a.mul.pt = a.plain.pt
         /\ Ladders(a.mul) = a.windows - 2
         /\ Ladders(a.plain) = 0
         /\ Doublings(a.plain) - Doublings(a.mul) = Ladders(a.mul)
         /\ Doublings(a.plain) = (a.windows - 1) * last.window_size
         /\ last.res = add(a.mul.ctx, a.mul.pt, a.aux.to_sub.val)

C19_Witness ==
  /\ IsMul /\ HasAux(last)
  /\ last.window_size = 1
  /\ last.scalar = 11
  /\ Ok(last.res)
  /\ Ok(Accumulators(last).mul)
  /\ Ok(Accumulators(last).plain)
  /\ Ladders(Accumulators(last).mul) = NUM_BITS - 2

\* the offset an accumulator carries on top of s * P
Offset(call, acc) == GroupAdd(acc, GroupNeg(GroupMul(call.point, call.scalar)))

\* 1 + 2^w + ... + 2^(w * (k - 1))
RECURSIVE OffsetFactor(_, _)
OffsetFactor(w, k) ==
  IF k = 0 THEN 0 ELSE 1 + Pow2(w) * OffsetFactor(w, k - 1)

\* C20 as stated: the offset that mul's schedule accumulates on aux.to_add
\* is the aux generator scaled by a power of two.
C20_OffsetPowerOfTwo ==
  (IsMul /\ HasAux(last) /\ Ok(Accumulators(last).mul)) =>
    LET a == Accumulators(last)
    IN \E e \in 0..(a.windows * last.window_size) :
         Offset(last, a.mul.pt) = GroupMul(a.aux.to_add.val, Pow2(e))

\* C20 amended: the offset that mul's schedule accumulates on aux.to_add is
\* the aux generator scaled by 1 + 2^w + ... + 2^(w(k-1)) for k windows, and
\* the registry point added as aux.to_sub is the negation of that multiple,
\* so that the final addition cancels it: acc + to_sub = s * P.
C20_OffsetCancels ==
  (IsMul /\ HasAux(last) /\ Ok(Accumulators(last).mul)) =>
    LET a == Accumulators(last)
        k0 == OffsetFactor(last.window_size, a.windows)
    IN /\ Offset(last, a.mul.pt) = GroupMul(a.aux.to_add.val, k0)
       /\ a.aux.to_sub.val = GroupNeg(GroupMul(a.aux.to_add.val, k0))
       /\ Ok(last.res) => last.res.pt = GroupMul(last.point, last.scalar)

C20_Witness ==
  /\ IsMul /\ HasAux(last)
  /\ last.window_size = 2
  /\ last.scalar = 11
  /\ Ok(Accumulators(last).mul)
  /\ Ok(last.res)
  /\ Offset(last, Accumulators(last).mul.pt) # INF

\* the tables and the accumulator of the batch call
BatchParts(call) ==
  LET aux == get_mul_aux(call.window_size, Len(call.pairs))
      decomposed_scalars == DecomposeAll(NewCtx, call.pairs, 1, << >>)
      padded == PadAll(decomposed_scalars.ctx, decomposed_scalars.all,
                       call.window_size, 1, << >>)
      windowed_scalars ==
        [i \in 1..Len(call.pairs) |-> window(padded.all[i], call.window_size)]
      tables == Tables(padded.ctx, call.pairs, aux.to_add.val, call.window_size,
                       1, << >>)
  IN [aux |-> aux,
      windows |-> Len(windowed_scalars[1]),
      tables |-> tables,
      acc |-> BatchSchedule(tables.ctx, windowed_scalars, tables.all,
                            call.window_size)]

HasBatchAux(call) ==
  /\ call.window_size >= 1
  /\ Len(call.pairs) >= 1
  /\ get_mul_aux(call.window_size, Len(call.pairs)).err = "none"

\* C21: in the batch with n pairs, pair i's table starts at 2^i * aux.to_add,
\* the aux is doubled n - 1 times (not after the last pair), the accumulator
\* before the final addition is the sum of s_i * P_i plus
\* (2^n - 1) * (1 + 2^w + ... + 2^(w(k-1))) * aux.to_add, and the registry
\* point of (w, n) added last cancels that offset.
C21_BatchOffset ==
  (IsBatch /\ HasBatchAux(last)) =>
    LET b == BatchParts(last)
        n == Len(last.pairs)
        to_add == b.aux.to_add.val
        factor == (Pow2(n) - 1) * OffsetFactor(last.window_size, b.windows)
    IN /\ b.tables.ctx.err = "none"
       /\ Len(b.tables.all) = n
       /\ \A i \in 1..n :
            /\ Len(b.tables.all[i]) = Pow2(last.window_size)
            /\ b.tables.all[i][1].kind = "pt" =>
                 b.tables.all[i][1] = GroupMul(to_add, Pow2(i - 1))
       /\ b.tables.all[1][1] = to_add
       /\ Count(b.tables.ctx.ops, "double_incomplete", Len(b.tables.ctx.ops))
            = n - 1
       /\ b.tables.ctx.ops[Len(b.tables.ctx.ops)] # "double_incomplete"
       /\ Ok(b.acc) =>
            b.acc.pt = GroupAdd(GroupSum(last.pairs, 1), GroupMul(to_add, factor))
       /\ b.aux.to_sub.val.kind = "pt" =>
            b.aux.to_sub.val = GroupNeg(GroupMul(to_add, factor))
       /\ b.acc.ctx.err = "none" =>
            last.res = add(b.acc.ctx, b.acc.pt, b.aux.to_sub.val)

C21_Witness ==
  /\ IsBatch /\ HasBatchAux(last)
  /\ Len(last.pairs) = 4
  /\ last.window_size = 2
  /\ Ok(BatchParts(last).acc)
  /\ Ok(last.res)
  /\ BatchParts(last).tables.all[4][1]
       = GroupMul(BatchParts(last).aux.to_add.val, 8)

\* the batch of the single pair (P, s) in the state of the mul call
AsBatch(call) ==
  mul_batch_1d_horizontal(NewCtx, <<Pair(call.point, call.scalar)>>,
                          call.window_size)

AsBatchParts(call) ==
  BatchParts([pairs |-> <<Pair(call.point, call.scalar)>>,
              window_size |-> call.window_size])

\* C22: for every P, s and w, mul(P, s, w) and the batch of the single pair
\* (P, s) read the registry key (w, 1), end alike, accumulate the same
\* multiple of aux.to_add and return the same point.
C22_MulAsBatch ==
  (IsMul /\ HasAux(last)) =>
    /\ AsBatch(last).ctx.err = last.res.ctx.err
    /\ (Ok(AsBatch(last)) /\ Ok(last.res)) => AsBatch(last).pt = last.res.pt
    /\ (Ok(AsBatchParts(last).acc) /\ Ok(Accumulators(last).mul)) =>
         Offset(last, AsBatchParts(last).acc.pt)
           = Offset(last, Accumulators(last).mul.pt)

\* C23: the result of mul is determined by (P, s) alone for every satisfying
\* witness: whenever the constraints of assign_aux_generator, assign_aux and
\* mul are satisfied, aux.to_sub is the negation of the offset accumulated on
\* aux.to_add and the result is s * P.
C23_AuxForced ==
  (IsMul /\ Ok(last.res)) =>
    /\ aux_registry[<<last.window_size, 1>>].val
         = GroupNeg(GroupMul(aux_generator.assigned.val,
                             OffsetFactor(last.window_size,
                                          NumberOfSelectors(last.window_size))))
    /\ last.res.pt = GroupMul(last.point, last.scalar)

RECURSIVE Repeat(_, _)
Repeat(ops, count) == IF count <= 0 THEN << >> ELSE ops \o Repeat(ops, count - 1)

PadOps(w) == Repeat(<<"assign_constant">>, (w - (NUM_BITS % w)) % w)
AddOps == <<"assert_not_equal", "add_incomplete_unsafe">>
TableOps(w) == Repeat(AddOps, Pow2(w) - 1)
SelectOps(w) == Repeat(<<"select">>, Pow2(w) - 1)
DoubleOps(count) == Repeat(<<"double_incomplete">>, count)

\* the operations of mul for a window size, whatever the values
MulOps(w) ==
  <<"decompose">> \o PadOps(w) \o TableOps(w)
    \o SelectOps(w) \o DoubleOps(w) \o SelectOps(w) \o AddOps
    \o Repeat(DoubleOps(w - 1) \o SelectOps(w) \o <<"ladder_incomplete">>,
              NumberOfSelectors(w) - 2)
    \o AddOps

\* the operations of the batch for a window size and a number of pairs
BatchOps(w, n) ==
  Repeat(<<"decompose">>, n) \o Repeat(PadOps(w), n)
    \o Repeat(TableOps(w) \o DoubleOps(1), n - 1) \o TableOps(w)
    \o SelectOps(w) \o Repeat(SelectOps(w) \o AddOps, n - 1)
    \o Repeat(DoubleOps(w) \o Repeat(SelectOps(w) \o AddOps, n),
              NumberOfSelectors(w) - 1)
    \o AddOps

\* C24: the sequence of constraint-emitting operations of mul and of the
\* batch (which, how many, in which order) is fixed by the window size, the
\* bit length of the scalar and the number of pairs; it is the same for
\* every scalar, point and aux generator, and so is whether the call ends
\* (a mul whose padded scalar is a single window stops at windowed.0[1]).
C24_FixedSchedule ==
  /\ (IsMul /\ HasAux(last)) =>
       /\ last.res.ctx.err
            = (IF NumberOfSelectors(last.window_size) < 2 THEN "panic" ELSE "none")
       /\ last.res.ctx.err = "none" =>
            last.res.ctx.ops = MulOps(last.window_size)
       /\ AsBatch(last).ctx.err = "none"
       /\ AsBatch(last).ctx.ops = BatchOps(last.window_size, 1)
  /\ (IsBatch /\ HasBatchAux(last)) =>
       /\ last.res.ctx.err = "none"
       /\ last.res.ctx.ops = BatchOps(last.window_size, Len(last.pairs))

\* a multiplication by 0, whose witness satisfies no add of the table, and
\* one window padded by a bit
C24_Witness ==
  /\ IsMul /\ HasAux(last)
  /\ last.scalar = 0 /\ last.window_size = 3
  /\ ~last.res.ctx.sat
  /\ Len(last.res.ctx.ops) = Len(MulOps(3))

\* the operations select_multi has emitted when `stop` rounds are done
RoundOps(call, stop) ==
  SelectRound(NewCtx, call.table, call.selector, 0, 0, stop).ctx.ops

\* C25: a select_multi call on a w-bit window performs exactly 2^w - 1 point
\* selects and nothing else, 2^(w-1-j) of them in round j, whatever the
\* value of the window.
C25_SelectCount ==
  (last.op = "select_multi" /\ Len(last.table) = Pow2(last.window_size)) =>
    /\ last.res.ctx.err = "none"
    /\ last.res.ctx.ops = SelectOps(last.window_size)
    /\ \A j \in 0..(last.window_size - 1) :
         Len(RoundOps(last, j + 1)) - Len(RoundOps(last, j))
           = Pow2(last.window_size - 1 - j)

C25_Witness ==
  /\ last.op = "select_multi"
  /\ last.window_size = 3
  /\ Len(last.table) = 8
  /\ WindowBits(last) = <<0, 0, 0>>
  /\ Len(last.res.ctx.ops) = 7
  /\ Len(RoundOps(last, 1)) = 4

AuxOps == {"assign_aux_generator", "assign_aux"}

\* C26: only assign_aux_generator and assign_aux change the aux state:
\* get_mul_aux, mul, the batch and the point primitives leave the generator
\* and every registry entry as they were, and an assign_aux(w, n) leaves the
\* generator and every entry but that of key (w, n) as they were.
C26_AuxFrame ==
  [][/\ last'.op \notin AuxOps =>
          aux_generator' = aux_generator /\ aux_registry' = aux_registry
     /\ last'.op = "assign_aux" =>
          /\ aux_generator' = aux_generator
          /\ DOMAIN aux_registry' \subseteq DOMAIN aux_registry \cup {Key(last')}
          /\ \A k \in DOMAIN aux_registry \ {Key(last')} :
               k \in DOMAIN aux_registry' /\ aux_registry'[k] = aux_registry[k]]_vars

\* a second key assigned after a first one, which is still there
C26_Witness ==
  /\ last.op = "assign_aux" /\ last.res.ctx.err = "none"
  /\ Key(last) = <<2, 1>>
  /\ <<1, 1>> \in DOMAIN aux_registry
  /\ aux_registry[<<1, 1>>].id < aux_registry[<<2, 1>>].id
  /\ instance # NoInstance

AllKeys == (0..MaxWindow) \X (0..MaxPairs)

\* C27: in every reachable state a non-empty registry implies an assigned
\* aux generator; hence get_mul_aux(w, n) succeeds exactly when the registry
\* holds the key (w, n), and then returns the generator and that entry.
C27_RegistryNeedsGenerator ==
  /\ (DOMAIN aux_registry # {}) => aux_generator.some
  /\ \A key \in AllKeys :
       (get_mul_aux(key[1], key[2]).err = "none") <=> (key \in DOMAIN aux_registry)
  /\ IsGet =>
       IF Key(last) \in DOMAIN aux_registry
       THEN last.aux = MulAuxNew(aux_generator.assigned, aux_registry[Key(last)])
       ELSE last.aux.err = "synthesis"

\* a lookup that succeeds on one key while another key is missing
C27_Witness ==
  /\ IsGet /\ last.aux.err = "none"
  /\ Key(last) = <<1, 2>>
  /\ <<1, 1>> \notin DOMAIN aux_registry
  /\ get_mul_aux(1, 1).err = "synthesis"

C29_IdentityFlag ==
  (last.op = "general.assign_point") =>
    /\ last.res.ctx.err = "none"
    /\ last.res.ctx.ops = <<"assign_integer", "assign_integer", "assign_bit">>
    /\ last.point = INF => last.res.pt = FlaggedPoint(0, 0, 1)
    /\ last.point.kind = "pt" =>
         last.res.pt = FlaggedPoint(last.point.x, last.point.y, 0)

\* the point at infinity assigned after a finite point
C29_Witness ==
  /\ last.op = "general.assign_point"
  /\ pc = "add"
  /\ circuit.x.kind = "pt"
  /\ last.point = INF
  /\ last.res.ctx.err = "none"
  /\ last.res.pt.z = 1

====
